---- MODULE Spec2Model ----
(***************************************************************************)
(* EduLearn dashboard components: UserStatistics, ContentManagement,       *)
(* QuizAnalytics and QuizHistory.  Each component is a React function      *)
(* component holding derived state that is filled by an asynchronous       *)
(* fetch against the hosted store.  The components share no state, so a    *)
(* behaviour follows one component instance, named by comp.                *)
(***************************************************************************)
EXTENDS Integers, Sequences, FiniteSets, TLC

VARIABLES
    comp,         \* the component instance this behaviour follows
    mounted,      \* the instance is mounted (not yet torn down)
    effectDue,    \* the mount effect (useEffect) has not run yet
    loading,      \* useState(true)
    inflight,     \* UserStatistics, QuizAnalytics, QuizHistory: the queries awaiting
                  \* their response, each by what it asks for
    now,          \* the wall clock, read by new Date()
    profiles,     \* store: the profiles table, as the query returns it
    stats,        \* UserStatistics: useState<UserStats>
    tables,       \* store: the rows of books, videos, courses and quizzes
    content,      \* ContentManagement: useState<ContentItem[]>
    fetches,      \* ContentManagement: the fetchAllContent calls awaiting Promise.all
    editingItem,  \* ContentManagement: useState<ContentItem | null>, <<>> for null
    editDialogOpen,
    editForm,     \* ContentManagement: the edit form's title, description, subject
    writes,       \* ContentManagement: update/delete requests awaiting their response
    writesIssued, \* number of update/delete requests sent to the store so far
    faults,       \* number of failures the store and the network have produced so far
    toast,        \* the notification raised last, <<>> before the first
    toastCount,   \* number of notifications raised so far
    authUser,     \* QuizHistory: the user useAuth() gives
    quizData,     \* store: the quizzes with their attempts
    analytics,    \* QuizAnalytics: useState<QuizAnalytics[]>
    history,      \* QuizHistory: useState<QuizHistory[]>
    historyStats  \* QuizHistory: useState<QuizStats>

lifeVars    == <<comp, mounted, effectDue, loading>>
statsVars   == <<inflight, now, profiles, stats>>
contentVars == <<tables, content, fetches, editingItem, editDialogOpen, editForm,
                 writes, writesIssued, faults, toast, toastCount>>
quizVars    == <<authUser, quizData, analytics, history, historyStats>>
vars == <<lifeVars, statsVars, contentVars, quizVars>>

(***************************************************************************)
(* Bounds of the model.                                                    *)
(***************************************************************************)
TicksPerDay == 2      \* instants per day: tick 0 is local midnight
NowSpan     == 9      \* days the current date ranges over
MaxUsers    == 2      \* rows in the profiles table
MaxRows     == 2      \* rows in the four content tables together
MaxId       == 2      \* row identities are 1..MaxId, unique within a table
MergeRows   == 2      \* rows in the four content tables, in SpecMerge
MaxTime     == 2      \* creation timestamps of content rows are 1..MaxTime, in SpecMerge
MaxWrites   == 2      \* update/delete requests the user issues
MaxFaults   == 1      \* failures of the store and the network
MaxAttempts == 2      \* attempts of one quiz
MaxQuestions == 2     \* total_questions of an attempt is 1..MaxQuestions
MaxInflight == 2      \* QuizHistory queries in flight when the user changes
MaxTotal    == 40     \* total_questions of a quiz's single attempt is 1..MaxTotal
PairTotal   == 12     \* total_questions of both attempts of a two-attempt quiz
LongHistory == 3      \* attempts of one user in a long history

(***************************************************************************)
(* JavaScript Date, local time.  A Date is a number of ticks since local   *)
(* midnight of 1 January EpochYear.                                        *)
(***************************************************************************)
EpochYear    == 2024  \* a leap year
EpochWeekday == 1     \* 1 January 2024 is a Monday (0 = Sunday)
CalendarMonths == 48

IsLeap(y) == (y % 4 = 0 /\ y % 100 # 0) \/ y % 400 = 0

DaysInMonth(y, m) ==
    IF m = 1 THEN (IF IsLeap(y) THEN 29 ELSE 28)
    ELSE IF m \in {3, 5, 8, 10} THEN 30 ELSE 31

RECURSIVE DaysBeforeMonth(_)
DaysBeforeMonth(k) ==
    IF k = 0 THEN 0
    ELSE DaysBeforeMonth(k - 1) + DaysInMonth(EpochYear + (k - 1) \div 12, (k - 1) % 12)

\* day number of the first day of absolute month k (k = 0 is January of EpochYear)
MonthStartDay == [k \in 0..CalendarMonths |-> DaysBeforeMonth(k)]

DayOf(t)     == t \div TicksPerDay
TimeOfDay(t) == t % TicksPerDay

MonthIndex(t) ==
    CHOOSE k \in 0..(CalendarMonths - 1) :
        MonthStartDay[k] <= DayOf(t) /\ DayOf(t) < MonthStartDay[k + 1]

getFullYear(t) == EpochYear + MonthIndex(t) \div 12
getMonth(t)    == MonthIndex(t) % 12
getDate(t)     == DayOf(t) - MonthStartDay[MonthIndex(t)] + 1
getDay(t)      == (DayOf(t) + EpochWeekday) % 7

\* new Date(year, monthIndex, day): local midnight; month and day out of range
\* carry into the neighbouring months and years
NewDate(y, m, d) == (MonthStartDay[(y - EpochYear) * 12 + m] + (d - 1)) * TicksPerDay

\* date.setDate(d): the day of the month is replaced, the time of day is kept;
\* returns (and leaves in the object) the new timestamp
setDate(t, d) == NewDate(getFullYear(t), getMonth(t), d) + TimeOfDay(t)

\* toLocaleDateString('en-US', {month: 'short', year: 'numeric'}): "Mon YYYY"
MonthLabel(t) == <<getFullYear(t), getMonth(t)>>

(***************************************************************************)
(* Helpers over sequences.                                                 *)
(***************************************************************************)
Min(a, b) == IF a < b THEN a ELSE b

RemoveAt(s, k) == SubSeq(s, 1, k - 1) \o SubSeq(s, k + 1, Len(s))

\* array.filter(p).length, for the array of the values of p
CountWhere(flags) == Cardinality({i \in DOMAIN flags : flags[i]})

(***************************************************************************)
(* UserStatistics                                                          *)
(***************************************************************************)
Roles == {"student", "admin", "teacher"}

InitialUserStats ==
    [totalUsers |-> 0, totalStudents |-> 0, totalAdmins |-> 0,
     newUsersThisMonth |-> 0, newUsersThisWeek |-> 0,
     recentUsers |-> <<>>, monthlyGrowth |-> <<>>]

\* (mutation) the month start taken after line 58 has moved now
StartOfMonthFromMovedNow(now0) ==
    LET moved == setDate(now0, getDate(now0) - getDay(now0))
    IN  NewDate(getFullYear(moved), getMonth(moved), 1)

\* line 57: new Date(now.getFullYear(), now.getMonth(), 1), before now is moved
StartOfMonth(now0) == NewDate(getFullYear(now0), getMonth(now0), 1)

\* (mutation) now is moved back to the most recent Sunday, but not out of its month
MovedNowWithinMonth(now0) ==
    LET moved == setDate(now0, getDate(now0) - getDay(now0))
    IN  IF moved < StartOfMonth(now0) THEN StartOfMonth(now0) ELSE moved

\* now.setDate(now.getDate() - now.getDay()): moves now itself back to the
\* most recent Sunday, at the current time of day
MovedNow(now0) == setDate(now0, getDate(now0) - getDay(now0))

\* (mutation) a bucket that reaches to the end of the following month
GrowthBucketOverlapping(allUsers, nowObj, i) ==
    LET date      == NewDate(getFullYear(nowObj), getMonth(nowObj) - i, 1)
        nextMonth == NewDate(getFullYear(nowObj), getMonth(nowObj) - i + 2, 1)
        InBucket(user) == user.created_at >= date /\ user.created_at < nextMonth
    IN  [month |-> MonthLabel(date),
         count |-> CountWhere([k \in DOMAIN allUsers |-> InBucket(allUsers[k])])]

\* one iteration of the loop of lines 81-93 for loop index i, run on the moved now
GrowthBucket(allUsers, nowObj, i) ==
    LET date      == NewDate(getFullYear(nowObj), getMonth(nowObj) - i, 1)
        nextMonth == NewDate(getFullYear(nowObj), getMonth(nowObj) - i + 1, 1)
        InBucket(user) == user.created_at >= date /\ user.created_at < nextMonth
    IN  [month |-> MonthLabel(date),
         count |-> CountWhere([k \in DOMAIN allUsers |-> InBucket(allUsers[k])])]

\* (mutation) every user who is not a student counts as an admin
ComputeUserStatsAdminsByExclusion(now0, allUsers) ==
    LET startOfMonth == StartOfMonth(now0)
        nowObj       == MovedNow(now0)
        startOfWeek  == nowObj
        IsStudent(user)   == user.role = "student"
        IsAdmin(user)     == user.role # "student"
        ThisMonth(user)   == user.created_at >= startOfMonth
        ThisWeek(user)    == user.created_at >= startOfWeek
    IN  [totalUsers        |-> Len(allUsers),
         totalStudents     |-> CountWhere([k \in DOMAIN allUsers |-> IsStudent(allUsers[k])]),
         totalAdmins       |-> CountWhere([k \in DOMAIN allUsers |-> IsAdmin(allUsers[k])]),
         newUsersThisMonth |-> CountWhere([k \in DOMAIN allUsers |-> ThisMonth(allUsers[k])]),
         newUsersThisWeek  |-> CountWhere([k \in DOMAIN allUsers |-> ThisWeek(allUsers[k])]),
         recentUsers       |-> [k \in 1..Min(10, Len(allUsers)) |->
                                   [role |-> allUsers[k].role,
                                    createdAt |-> allUsers[k].created_at]],
         monthlyGrowth     |-> [j \in 1..6 |-> GrowthBucket(allUsers, nowObj, 6 - j)]]

\* lines 56-103: the derived state computed from the fetched rows
ComputeUserStats(now0, allUsers) ==
    LET startOfMonth == StartOfMonth(now0)
        nowObj       == MovedNow(now0)
        startOfWeek  == nowObj
        IsStudent(user)   == user.role = "student"
        IsAdmin(user)     == user.role = "admin"
        ThisMonth(user)   == user.created_at >= startOfMonth
        ThisWeek(user)    == user.created_at >= startOfWeek
    IN  [totalUsers        |-> Len(allUsers),
         totalStudents     |-> CountWhere([k \in DOMAIN allUsers |-> IsStudent(allUsers[k])]),
         totalAdmins       |-> CountWhere([k \in DOMAIN allUsers |-> IsAdmin(allUsers[k])]),
         newUsersThisMonth |-> CountWhere([k \in DOMAIN allUsers |-> ThisMonth(allUsers[k])]),
         newUsersThisWeek  |-> CountWhere([k \in DOMAIN allUsers |-> ThisWeek(allUsers[k])]),
         recentUsers       |-> [k \in 1..Min(10, Len(allUsers)) |->
                                   [role |-> allUsers[k].role,
                                    createdAt |-> allUsers[k].created_at]],
         monthlyGrowth     |-> [j \in 1..6 |-> GrowthBucket(allUsers, nowObj, 6 - j)]]

\* lines 44-54: setLoading(true) and the query is sent
StatsFetchStart ==
    /\ comp = "UserStatistics"
    /\ mounted /\ effectDue
    /\ effectDue' = FALSE
    /\ loading' = TRUE
    /\ inflight' = Append(inflight, "profiles")
    /\ UNCHANGED <<comp, mounted, now, profiles, stats, contentVars, quizVars>>

QueryOutcomes == {"data", "nodata", "throw"}

\* lines 49-109: the response arrives; "nodata" is a response without data
\* (line 54 returns), "throw" a rejected query (line 104); finally runs always
StatsFetchSettle(outcome) ==
    /\ comp = "UserStatistics"
    /\ inflight # <<>>
    /\ inflight' = Tail(inflight)
    /\ stats' = IF outcome = "data" THEN ComputeUserStats(now, profiles) ELSE stats
    /\ loading' = FALSE
    /\ UNCHANGED <<comp, mounted, effectDue, now, profiles, contentVars, quizVars>>

\* .order('created_at', {ascending: false}): the rows arrive newest first
NewestFirst(s) == \A i \in 1..(Len(s) - 1) : s[i].created_at >= s[i + 1].created_at

(***************************************************************************)
(* ContentManagement                                                       *)
(***************************************************************************)
Null == "null"     \* an absent (null) column value

Tables == {"books", "videos", "courses", "quizzes"}

\* lines 55-90: the ContentItem type tag given to the rows of each table
TypeOfTable(t) ==
    CASE t = "books"   -> "book"
      [] t = "videos"  -> "video"
      [] t = "courses" -> "course"
      [] t = "quizzes" -> "quiz"

\* (mutation) every type is routed to the books table
TableOfTypeAlwaysBooks(type) == "books"

\* lines 126-140 and 169-183: the switch that picks tableName
TableOfType(type) ==
    CASE type = "book"   -> "books"
      [] type = "video"  -> "videos"
      [] type = "course" -> "courses"
      [] type = "quiz"   -> "quizzes"

\* lines 55-63: a store row as a ContentItem
ItemOfRow(t, row) ==
    [id |-> row.id, type |-> TypeOfTable(t), title |-> row.title,
     description |-> row.description, subject |-> row.subject,
     createdAt |-> row.created_at]

\* .select('*').order('created_at', {ascending: false}): the rows of a table,
\* newest first; the store is free in the order of rows of equal created_at
OrderedRows(rows) ==
    {s \in [1..Cardinality(rows) -> rows] :
        /\ \A i, j \in DOMAIN s : i # j => s[i] # s[j]
        /\ NewestFirst(s)}

\* (mutation) the comparator with a and b exchanged: oldest first
InsertOldestFirst(sorted, x) ==
    LET k == Cardinality({i \in DOMAIN sorted : sorted[i].createdAt <= x.createdAt})
    IN  SubSeq(sorted, 1, k) \o <<x>> \o SubSeq(sorted, k + 1, Len(sorted))

\* Array.prototype.sort is stable: x goes behind the items that are not older
InsertNewestFirst(sorted, x) ==
    LET k == Cardinality({i \in DOMAIN sorted : sorted[i].createdAt >= x.createdAt})
    IN  SubSeq(sorted, 1, k) \o <<x>> \o SubSeq(sorted, k + 1, Len(sorted))

\* line 91: .sort((a, b) => new Date(b.createdAt) - new Date(a.createdAt))
RECURSIVE SortNewestFirst(_)
SortNewestFirst(items) ==
    IF items = <<>> THEN <<>>
    ELSE InsertNewestFirst(SortNewestFirst(SubSeq(items, 1, Len(items) - 1)),
                           items[Len(items)])

Pending == [kind |-> "pending"]

\* (mutation) a result with an error drops the results of the other tables too
RowsOfResultAllOrNothing(results, t) ==
    IF \E u \in Tables : results[u].kind = "error" THEN <<>>
    ELSE IF results[t].kind = "data" THEN results[t].rows ELSE <<>>

\* (xData.data || []) for the resolved result of table t
RowsOfResult(results, t) ==
    IF results[t].kind = "data" THEN results[t].rows ELSE <<>>

ItemsOfResult(results, t) ==
    [k \in DOMAIN RowsOfResult(results, t) |-> ItemOfRow(t, RowsOfResult(results, t)[k])]

\* lines 54-91: allContent, from the four resolved results
MergeContent(results) ==
    SortNewestFirst(ItemsOfResult(results, "books") \o ItemsOfResult(results, "videos")
                    \o ItemsOfResult(results, "courses") \o ItemsOfResult(results, "quizzes"))

FetchErrorToast  == [variant |-> "destructive", description |-> "Failed to fetch content"]
UpdateErrorToast == [variant |-> "destructive", description |-> "Failed to update content"]
DeleteErrorToast == [variant |-> "destructive", description |-> "Failed to delete content"]
UpdatedToast(type) == [variant |-> "default", description |-> type \o " updated successfully"]
DeletedToast(type) == [variant |-> "default", description |-> type \o " deleted successfully"]

\* toast({...})
Notify(t) ==
    /\ toast' = <<t>>
    /\ toastCount' = toastCount + 1

\* lines 42-52 of fetchAllContent, as every caller runs them: setLoading(true)
\* and the four queries are sent together
BeginFetchAllContent ==
    /\ loading' = TRUE
    /\ fetches' = Append(fetches, [t \in Tables |-> Pending])

\* lines 38-40: the mount effect calls fetchAllContent
ContentMountEffect ==
    /\ comp = "ContentManagement"
    /\ mounted /\ effectDue
    /\ effectDue' = FALSE
    /\ BeginFetchAllContent
    /\ UNCHANGED <<comp, mounted, statsVars, quizVars, tables, content, editingItem,
                   editDialogOpen, editForm, writes, writesIssued, faults, toast, toastCount>>

\* lines 48-51: the query of table t of fetch f resolves with the table's rows
SubFetchData(f, t) ==
    /\ comp = "ContentManagement"
    /\ f \in DOMAIN fetches
    /\ fetches[f][t] = Pending
    /\ \E rows \in OrderedRows(tables[t]) :
          fetches' = [fetches EXCEPT ![f][t] = [kind |-> "data", rows |-> rows]]
    /\ UNCHANGED <<lifeVars, statsVars, quizVars, tables, content, editingItem, editDialogOpen,
                   editForm, writes, writesIssued, faults, toast, toastCount>>

\* lines 48-51: the queries of fetch f that are still pending resolve one right
\* after the other, each with its table's rows
SubFetchDataAll(f) ==
    /\ comp = "ContentManagement"
    /\ f \in DOMAIN fetches
    /\ \E t \in Tables : fetches[f][t] = Pending
    /\ \E rb \in OrderedRows(tables["books"]), rv \in OrderedRows(tables["videos"]),
          rc \in OrderedRows(tables["courses"]), rq \in OrderedRows(tables["quizzes"]) :
          LET rows == [books |-> rb, videos |-> rv, courses |-> rc, quizzes |-> rq]
          IN  fetches' = [fetches EXCEPT ![f] =
                             [t \in Tables |-> IF @[t] = Pending
                                                  THEN [kind |-> "data", rows |-> rows[t]]
                                                  ELSE @[t]]]
    /\ UNCHANGED <<lifeVars, statsVars, quizVars, tables, content, editingItem, editDialogOpen,
                   editForm, writes, writesIssued, faults, toast, toastCount>>

\* lines 48-51: the query of table t of fetch f resolves with {data: null, error}
SubFetchError(f, t) ==
    /\ comp = "ContentManagement"
    /\ f \in DOMAIN fetches
    /\ fetches[f][t] = Pending
    /\ faults < MaxFaults
    /\ faults' = faults + 1
    /\ fetches' = [fetches EXCEPT ![f][t] = [kind |-> "error"]]
    /\ UNCHANGED <<lifeVars, statsVars, quizVars, tables, content, editingItem, editDialogOpen,
                   editForm, writes, writesIssued, toast, toastCount>>

\* lines 47-52 and 94-103: the query of table t of fetch f rejects; Promise.all
\* rejects at once, the catch block reports it and finally clears loading
SubFetchReject(f, t) ==
    /\ comp = "ContentManagement"
    /\ f \in DOMAIN fetches
    /\ fetches[f][t] = Pending
    /\ faults < MaxFaults
    /\ faults' = faults + 1
    /\ fetches' = RemoveAt(fetches, f)
    /\ Notify(FetchErrorToast)
    /\ loading' = FALSE
    /\ UNCHANGED <<comp, mounted, effectDue, statsVars, quizVars, tables, content, editingItem,
                   editDialogOpen, editForm, writes, writesIssued>>

\* (mutation) the merge runs as soon as one query has resolved
FetchAllContentJoinEarly(f) ==
    /\ comp = "ContentManagement"
    /\ f \in DOMAIN fetches
    /\ \E t \in Tables : fetches[f][t] # Pending
    /\ content' = MergeContent(fetches[f])
    /\ loading' = FALSE
    /\ fetches' = RemoveAt(fetches, f)
    /\ UNCHANGED <<comp, mounted, effectDue, statsVars, quizVars, tables, editingItem,
                   editDialogOpen, editForm, writes, writesIssued, faults, toast,
                   toastCount>>

\* lines 47-93 and 101-103: all four queries of fetch f have resolved; the merge
\* replaces content and finally clears loading
FetchAllContentJoin(f) ==
    /\ comp = "ContentManagement"
    /\ f \in DOMAIN fetches
    /\ \A t \in Tables : fetches[f][t] # Pending
    /\ content' = MergeContent(fetches[f])
    /\ loading' = FALSE
    /\ fetches' = RemoveAt(fetches, f)
    /\ UNCHANGED <<comp, mounted, effectDue, statsVars, quizVars, tables, editingItem,
                   editDialogOpen, editForm, writes, writesIssued, faults, toast, toastCount>>

\* the table, the edit dialog and their buttons are rendered only while the
\* component is mounted and loading is false (lines 237-252)
Rendered == comp = "ContentManagement" /\ mounted /\ ~loading

\* item.description || ''
OrEmpty(v) == IF v = Null THEN "" ELSE v

\* lines 106-114
handleEdit(k) ==
    /\ Rendered
    /\ k \in DOMAIN content
    /\ editingItem' = <<content[k]>>
    /\ editForm' = [title |-> content[k].title,
                    description |-> OrEmpty(content[k].description),
                    subject |-> OrEmpty(content[k].subject)]
    /\ editDialogOpen' = TRUE
    /\ UNCHANGED <<lifeVars, statsVars, quizVars, tables, content, fetches, writes,
                   writesIssued, faults, toast, toastCount>>

\* what the user types into a field
FormValues(field) ==
    CASE field = "title"       -> {"b"}
      [] field = "description" -> {}
      [] field = "subject"     -> {}

\* lines 370, 378, 386: onChange of a form field
ChangeField(field, value) ==
    /\ Rendered /\ editDialogOpen
    /\ editForm[field] # value
    /\ editForm' = [editForm EXCEPT ![field] = value]
    /\ UNCHANGED <<lifeVars, statsVars, quizVars, tables, content, fetches, editingItem,
                   editDialogOpen, writes, writesIssued, faults, toast, toastCount>>

\* lines 356 and 391: the dialog is dismissed
CancelEdit ==
    /\ Rendered /\ editDialogOpen
    /\ editDialogOpen' = FALSE
    /\ UNCHANGED <<lifeVars, statsVars, quizVars, tables, content, fetches, editingItem,
                   editForm, writes, writesIssued, faults, toast, toastCount>>

\* lines 116-145: Save Changes; the update request is sent
handleSaveEdit ==
    /\ Rendered /\ editDialogOpen
    /\ editingItem # <<>>
    /\ writesIssued < MaxWrites
    /\ writesIssued' = writesIssued + 1
    /\ writes' = Append(writes, [op |-> "update",
                                 table |-> TableOfType(editingItem[1].type),
                                 id |-> editingItem[1].id,
                                 data |-> [title |-> editForm.title,
                                           description |-> editForm.description,
                                           subject |-> editForm.subject],
                                 type |-> editingItem[1].type])
    /\ UNCHANGED <<lifeVars, statsVars, quizVars, tables, content, fetches, editingItem,
                   editDialogOpen, editForm, faults, toast, toastCount>>

\* lines 167-188: Delete confirmed for the item of row k; the request is sent
handleDelete(k) ==
    /\ Rendered
    /\ k \in DOMAIN content
    /\ writesIssued < MaxWrites
    /\ writesIssued' = writesIssued + 1
    /\ writes' = Append(writes, [op |-> "delete",
                                 table |-> TableOfType(content[k].type),
                                 id |-> content[k].id,
                                 data |-> <<>>,
                                 type |-> content[k].type])
    /\ UNCHANGED <<lifeVars, statsVars, quizVars, tables, content, fetches, editingItem,
                   editDialogOpen, editForm, faults, toast, toastCount>>

\* the store's update ... where id = req.id
UpdateRows(rows, req) ==
    {IF row.id = req.id
        THEN [row EXCEPT !.title = req.data.title,
                         !.description = req.data.description,
                         !.subject = req.data.subject]
        ELSE row : row \in rows}

\* the store's delete ... where id = req.id
DeleteRows(rows, req) == {row \in rows : row.id # req.id}

\* (mutation) the edited item is patched into content instead of re-fetched
SaveEditOkPatchingLocally(w) ==
    /\ comp = "ContentManagement"
    /\ w \in DOMAIN writes
    /\ writes[w].op = "update"
    /\ tables' = [tables EXCEPT ![writes[w].table] = UpdateRows(@, writes[w])]
    /\ writes' = RemoveAt(writes, w)
    /\ Notify(UpdatedToast(writes[w].type))
    /\ editDialogOpen' = FALSE
    /\ editingItem' = <<>>
    /\ content' = [k \in DOMAIN content |->
                      IF content[k].id = writes[w].id /\ content[k].type = writes[w].type
                         THEN [content[k] EXCEPT !.title = writes[w].data.title]
                         ELSE content[k]]
    /\ UNCHANGED <<lifeVars, statsVars, quizVars, fetches, editForm, writesIssued, faults>>

\* lines 142-156: the update succeeded
SaveEditOk(w) ==
    /\ comp = "ContentManagement"
    /\ w \in DOMAIN writes
    /\ writes[w].op = "update"
    /\ tables' = [tables EXCEPT ![writes[w].table] = UpdateRows(@, writes[w])]
    /\ writes' = RemoveAt(writes, w)
    /\ Notify(UpdatedToast(writes[w].type))
    /\ editDialogOpen' = FALSE
    /\ editingItem' = <<>>
    /\ BeginFetchAllContent
    /\ UNCHANGED <<comp, mounted, effectDue, statsVars, quizVars, content, editForm,
                   writesIssued, faults>>

\* (mutation) the catch block sends the update again
SaveEditFailRetrying(w) ==
    /\ comp = "ContentManagement"
    /\ w \in DOMAIN writes
    /\ writes[w].op = "update"
    /\ faults < MaxFaults
    /\ faults' = faults + 1
    /\ writes' = Append(RemoveAt(writes, w), writes[w])
    /\ Notify(UpdateErrorToast)
    /\ UNCHANGED <<lifeVars, statsVars, quizVars, tables, content, fetches, editingItem,
                   editDialogOpen, editForm, writesIssued>>

\* lines 142-147 and 157-164: the store rejected the update
SaveEditFail(w) ==
    /\ comp = "ContentManagement"
    /\ w \in DOMAIN writes
    /\ writes[w].op = "update"
    /\ faults < MaxFaults
    /\ faults' = faults + 1
    /\ writes' = RemoveAt(writes, w)
    /\ Notify(UpdateErrorToast)
    /\ UNCHANGED <<lifeVars, statsVars, quizVars, tables, content, fetches, editingItem,
                   editDialogOpen, editForm, writesIssued>>

\* lines 185-197: the delete succeeded
DeleteOk(w) ==
    /\ comp = "ContentManagement"
    /\ w \in DOMAIN writes
    /\ writes[w].op = "delete"
    /\ tables' = [tables EXCEPT ![writes[w].table] = DeleteRows(@, writes[w])]
    /\ writes' = RemoveAt(writes, w)
    /\ Notify(DeletedToast(writes[w].type))
    /\ BeginFetchAllContent
    /\ UNCHANGED <<comp, mounted, effectDue, statsVars, quizVars, content, editingItem,
                   editDialogOpen, editForm, writesIssued, faults>>

\* lines 185-190 and 198-205: the store rejected the delete
DeleteFail(w) ==
    /\ comp = "ContentManagement"
    /\ w \in DOMAIN writes
    /\ writes[w].op = "delete"
    /\ faults < MaxFaults
    /\ faults' = faults + 1
    /\ writes' = RemoveAt(writes, w)
    /\ Notify(DeleteErrorToast)
    /\ UNCHANGED <<lifeVars, statsVars, quizVars, tables, content, fetches, editingItem,
                   editDialogOpen, editForm, writesIssued>>

\* AdminDashboard lines 273-275: another tab is chosen and the component is
\* torn down; its requests in flight are not cancelled
Unmount ==
    /\ mounted
    /\ mounted' = FALSE
    /\ UNCHANGED <<comp, effectDue, loading, statsVars, contentVars, quizVars>>

(***************************************************************************)
(* JavaScript numbers: IEEE 754 binary64, round to nearest, ties to even.  *)
(* A positive number is a significand of 53 bits (a sequence of 0 and 1,   *)
(* most significant bit first, the first bit 1) and an exponent: its value *)
(* is significand * 2^exponent.  Zero has the empty significand, and so    *)
(* has NaN, told apart by its exponent field.  The numbers of the quiz     *)
(* components are never negative.                                          *)
(***************************************************************************)
MantissaBits == 53     \* significand width of binary64
GuardBits    == 12     \* digits appended to a dividend before a division by n < 2^10

Zeros(n) == [i \in 1..n |-> 0]

RECURSIVE Bits(_)
\* the binary digits of the natural number n, <<>> for 0
Bits(n) == IF n = 0 THEN <<>> ELSE Append(Bits(n \div 2), n % 2)

RECURSIVE ToInt(_)
ToInt(bits) ==
    IF bits = <<>> THEN 0 ELSE 2 * ToInt(SubSeq(bits, 1, Len(bits) - 1)) + bits[Len(bits)]

\* the digits without their leading zeros
StripZeros(bits) ==
    IF \A i \in DOMAIN bits : bits[i] = 0 THEN <<>>
    ELSE SubSeq(bits, CHOOSE i \in DOMAIN bits :
                          bits[i] = 1 /\ \A j \in 1..(i - 1) : bits[j] = 0,
                Len(bits))

\* bits + 1 for digits that are not all 1
Increment(bits) ==
    LET j == CHOOSE i \in DOMAIN bits : bits[i] = 0 /\ \A k \in (i + 1)..Len(bits) : bits[k] = 1
    IN  [i \in DOMAIN bits |-> IF i < j THEN bits[i] ELSE IF i = j THEN 1 ELSE 0]

\* the carry into digit i of a + b, for a and b of equal length: some
\* digit to the right produces a carry that every digit in between passes on
CarryInto(a, b, i) ==
    \E j \in (i + 1)..Len(a) :
        /\ a[j] + b[j] = 2
        /\ \A k \in (i + 1)..(j - 1) : a[k] + b[k] = 1

\* a + b on digit sequences
BigAdd(a, b) ==
    LET n  == IF Len(a) > Len(b) THEN Len(a) ELSE Len(b)
        pa == Zeros(n - Len(a)) \o a
        pb == Zeros(n - Len(b)) \o b
    IN  (IF CarryInto(pa, pb, 0) THEN <<1>> ELSE <<>>)
            \o [i \in 1..n |-> (pa[i] + pb[i] + (IF CarryInto(pa, pb, i) THEN 1 ELSE 0)) % 2]

RECURSIVE BigMulSmall(_, _)
\* a * c for digits a and a small natural number c
BigMulSmall(a, c) ==
    IF c = 0 THEN <<>>
    ELSE LET rest == BigMulSmall(a, c \div 2) \o <<0>>
         IN  IF c % 2 = 1 THEN BigAdd(rest, a) ELSE rest

RECURSIVE DivRange(_, _, _, _, _)
\* long division of the digits lo..hi of a by the small number n, with the
\* remainder rem of the digits before lo
DivRange(a, n, lo, hi, rem) ==
    IF lo = hi
        THEN LET cur == 2 * rem + a[lo]
             IN  IF cur >= n THEN [q |-> <<1>>, r |-> cur - n] ELSE [q |-> <<0>>, r |-> cur]
    ELSE LET mid   == (lo + hi) \div 2
             left  == DivRange(a, n, lo, mid, rem)
             right == DivRange(a, n, mid + 1, hi, left.r)
         IN  [q |-> left.q \o right.q, r |-> right.r]

Zero == [m |-> <<>>, e |-> 0]

\* the number NaN, the value of 0 / 0
NaN == [m |-> <<>>, e |-> 1]

\* NaN where a number is held as an integer (the results of Math.round); no
\* other result is negative
NaNInt == 0 - 1

\* the binary64 nearest to bits * 2^e (plus a nonzero rest below the last
\* digit when sticky), ties to even
RoundToDouble(bits, sticky, e) ==
    LET sig == StripZeros(bits)
        n   == Len(sig)
    IN  IF sig = <<>> THEN Zero
        ELSE IF n <= MantissaBits
            THEN [m |-> sig \o Zeros(MantissaBits - n), e |-> e - (MantissaBits - n)]
        ELSE LET keep  == SubSeq(sig, 1, MantissaBits)
                 round == sig[MantissaBits + 1]
                 rest  == sticky \/ \E i \in (MantissaBits + 2)..n : sig[i] = 1
                 up    == round = 1 /\ (rest \/ keep[MantissaBits] = 1)
                 e1    == e + (n - MantissaBits)
             IN  IF ~up THEN [m |-> keep, e |-> e1]
                 ELSE IF \A i \in DOMAIN keep : keep[i] = 1
                     THEN [m |-> <<1>> \o Zeros(MantissaBits - 1), e |-> e1 + 1]
                 ELSE [m |-> Increment(keep), e |-> e1]

\* an integer as a number
FloatOfInt(n) == RoundToDouble(Bits(n), FALSE, 0)

\* x / n for a number x and an integer n >= 0; 0 / 0 is NaN (x / 0 for x > 0,
\* Infinity, does not occur: a score is at most its total_questions)
FloatDivInt(x, n) ==
    IF x = NaN \/ (x = Zero /\ n = 0) THEN NaN
    ELSE IF x.m = <<>> THEN Zero
    ELSE LET d == DivRange(x.m \o Zeros(GuardBits), n, 1, MantissaBits + GuardBits, 0)
         IN  RoundToDouble(d.q, d.r # 0, x.e - GuardBits)

\* x * c for a number x and an integer c > 0
FloatMulInt(x, c) ==
    IF x = NaN THEN NaN
    ELSE IF x.m = <<>> THEN Zero ELSE RoundToDouble(BigMulSmall(x.m, c), FALSE, x.e)

\* x + y
FloatAdd(x, y) ==
    IF x = NaN \/ y = NaN THEN NaN
    ELSE IF x.m = <<>> THEN y
    ELSE IF y.m = <<>> THEN x
    ELSE LET e == IF x.e < y.e THEN x.e ELSE y.e
         IN  RoundToDouble(BigAdd(x.m \o Zeros(x.e - e), y.m \o Zeros(y.e - e)), FALSE, e)

\* Math.round(x) for 0 <= x < 2^52: the nearest integer, halves go up;
\* Math.round(NaN) is NaN
MathRound(x) ==
    IF x = NaN THEN NaNInt
    ELSE IF x.m = <<>> \/ -x.e > MantissaBits THEN 0
    ELSE IF x.e >= 0 THEN ToInt(x.m \o Zeros(x.e))
    ELSE ToInt(SubSeq(x.m, 1, MantissaBits + x.e)) + x.m[MantissaBits + x.e + 1]

(***************************************************************************)
(* Arithmetic of the quiz components.                                      *)
(***************************************************************************)
\* n / d rounded to the nearest integer, halves up, for n >= 0 and d > 0
RoundDiv(n, d) == (2 * n + d) \div (2 * d)

RECURSIVE SumOver(_, _)
\* array.reduce((sum, x) => sum + f(x), 0), for the array vals of integers f(x)
SumOver(vals, k) == IF k = 0 THEN 0 ELSE SumOver(vals, k - 1) + vals[k]

Sum(vals) == SumOver(vals, Len(vals))

\* the same for integers f(x) of which some may be NaN: sum + NaN is NaN
SumOrNaN(vals) ==
    IF \E k \in DOMAIN vals : vals[k] = NaNInt THEN NaNInt ELSE Sum(vals)

RECURSIVE FloatSumOver(_, _)
\* array.reduce((sum, x) => sum + f(x), 0), for the array vals of numbers f(x)
FloatSumOver(vals, k) ==
    IF k = 0 THEN Zero ELSE FloatAdd(FloatSumOver(vals, k - 1), vals[k])

FloatSum(vals) == FloatSumOver(vals, Len(vals))

\* score / total_questions * 100
UnroundedPercentage(score, total_questions) ==
    FloatMulInt(FloatDivInt(FloatOfInt(score), total_questions), 100)

\* Math.round((score / total_questions) * 100) for 0 <= score <= total_questions,
\* total_questions in 1..MaxTotal, computed once: row total_questions, entry score + 1
PercentageTable ==
    <<>> \o [t \in 1..MaxTotal |->
                <<>> \o [i \in 1..(t + 1) |-> MathRound(UnroundedPercentage(i - 1, t))]]

\* Math.round((score / total_questions) * 100)
Percentage(score, total_questions) ==
    IF total_questions = 0
        THEN MathRound(UnroundedPercentage(score, total_questions))
        ELSE PercentageTable[total_questions][score + 1]

\* Math.round(totalScore / totalQuizzes) for totalScore a sum of totalQuizzes
\* percentages, computed once: row totalQuizzes, entry totalScore + 1
RoundedMeanTable ==
    <<>> \o [n \in 1..(IF MaxAttempts > LongHistory THEN MaxAttempts ELSE LongHistory) |->
                <<>> \o [i \in 1..(100 * n + 1) |->
                            MathRound(FloatDivInt(FloatOfInt(i - 1), n))]]

\* Math.round(totalScore / totalQuizzes), for totalQuizzes > 0
RoundedMean(totalScore, totalQuizzes) ==
    IF totalScore = NaNInt THEN NaNInt ELSE RoundedMeanTable[totalQuizzes][totalScore + 1]

(***************************************************************************)
(* QuizAnalytics                                                           *)
(***************************************************************************)
\* lines 462-488 of part_000, for one quiz.  averageScore is held in tenths,
\* as the integer Math.round(averageScore * 10) that line 484 divides by 10
AnalyticsOfQuiz(quiz) ==
    LET attempts          == quiz.quiz_attempts
        totalAttempts     == Len(attempts)
        scores            == [k \in DOMAIN attempts |-> attempts[k].score]
        percentages       == [k \in DOMAIN attempts |->
                                 UnroundedPercentage(attempts[k].score,
                                                     attempts[k].total_questions)]
        averageScore      == IF totalAttempts > 0
                                THEN FloatDivInt(FloatOfInt(Sum(scores)), totalAttempts)
                                ELSE Zero
        averagePercentage == IF totalAttempts > 0
                                THEN FloatDivInt(FloatSum(percentages), totalAttempts)
                                ELSE Zero
    IN  [quizId         |-> quiz.id,
         quizTitle      |-> quiz.title,
         totalAttempts  |-> totalAttempts,
         averageScore10 |-> MathRound(FloatMulInt(averageScore, 10)),
         completionRate |-> MathRound(averagePercentage),
         students       |-> [k \in DOMAIN attempts |->
                                [id          |-> attempts[k].user_id,
                                 name        |-> IF attempts[k].full_name = Null
                                                    THEN "Unknown"
                                                    ELSE attempts[k].full_name,
                                 score       |-> attempts[k].score,
                                 percentage  |-> Percentage(attempts[k].score,
                                                            attempts[k].total_questions),
                                 completedAt |-> attempts[k].completed_at]]]

ComputeAnalytics(quizzes) == [q \in DOMAIN quizzes |-> AnalyticsOfQuiz(quizzes[q])]

\* lines 429-453 of part_000: the mount effect calls fetchQuizAnalytics
AnalyticsFetchStart ==
    /\ comp = "QuizAnalytics"
    /\ mounted /\ effectDue
    /\ effectDue' = FALSE
    /\ loading' = TRUE
    /\ inflight' = Append(inflight, "quizzes")
    /\ UNCHANGED <<comp, mounted, now, profiles, stats, contentVars, authUser, quizData,
                   analytics, history, historyStats>>

QuizQueryOutcomes == {"data", "error", "nodata", "throw"}

\* lines 438-496 of part_000: the response arrives; an error (line 455) and a
\* missing result (line 460) return, a rejection is caught; finally runs always
AnalyticsFetchSettle(i, outcome) ==
    /\ comp = "QuizAnalytics"
    /\ i \in DOMAIN inflight
    /\ inflight' = RemoveAt(inflight, i)
    /\ analytics' = IF outcome = "data" THEN ComputeAnalytics(quizData) ELSE analytics
    /\ loading' = FALSE
    /\ UNCHANGED <<comp, mounted, effectDue, now, profiles, stats, contentVars, authUser,
                   quizData, history, historyStats>>

(***************************************************************************)
(* QuizHistory                                                             *)
(***************************************************************************)
NoUser == "none"    \* useAuth() has no user (yet)

Users == {"u1", "u2"}

InitialQuizStats ==
    [totalQuizzes |-> 0, averageScore |-> 0, passedQuizzes |-> 0, totalScore |-> 0]

\* the attempts of user u joined with the title of their quiz, as rows
AttemptsOfUser(quizzes, u) ==
    {[id |-> quizzes[q].quiz_attempts[k].id,
      score |-> quizzes[q].quiz_attempts[k].score,
      total_questions |-> quizzes[q].quiz_attempts[k].total_questions,
      completed_at |-> quizzes[q].quiz_attempts[k].completed_at,
      title |-> quizzes[q].title] :
        <<q, k>> \in UNION {{<<p, j>> : j \in {a \in DOMAIN quizzes[p].quiz_attempts :
                                                       quizzes[p].quiz_attempts[a].user_id = u}} :
                             p \in DOMAIN quizzes}}

\* (mutation) the query without its order clause: the rows in any order
AttemptResultsUnordered(quizzes, u) ==
    {s \in [1..Cardinality(AttemptsOfUser(quizzes, u)) -> AttemptsOfUser(quizzes, u)] :
        \A i, j \in DOMAIN s : i # j => s[i] # s[j]}

\* .eq('user_id', user?.id).order('completed_at', {ascending: false}); the store
\* is free in the order of attempts completed at the same time
AttemptResults(quizzes, u) ==
    {s \in [1..Cardinality(AttemptsOfUser(quizzes, u)) -> AttemptsOfUser(quizzes, u)] :
        /\ \A i, j \in DOMAIN s : i # j => s[i] # s[j]
        /\ \A i \in 1..(Len(s) - 1) : s[i].completed_at >= s[i + 1].completed_at}

\* lines 70-81: one history row
HistoryRow(attempt) ==
    LET percentage == Percentage(attempt.score, attempt.total_questions)
    IN  [id             |-> attempt.id,
         quizTitle      |-> IF attempt.title = Null THEN "Unknown Quiz" ELSE attempt.title,
         score          |-> attempt.score,
         totalQuestions |-> attempt.total_questions,
         percentage     |-> percentage,
         completedAt    |-> attempt.completed_at,
         isPassed       |-> percentage # NaNInt /\ percentage >= 70]

ComputeHistory(attempts) == [k \in DOMAIN attempts |-> HistoryRow(attempts[k])]

\* (mutation) every row counts as passed
ComputeQuizStatsAllPassed(historyData) ==
    LET totalQuizzes == Len(historyData)
        totalScore   == SumOrNaN([k \in DOMAIN historyData |-> historyData[k].percentage])
    IN  [totalQuizzes  |-> totalQuizzes,
         averageScore  |-> IF totalQuizzes > 0
                              THEN RoundedMean(totalScore, totalQuizzes) ELSE 0,
         passedQuizzes |-> totalQuizzes,
         totalScore    |-> totalScore]

\* lines 86-96: the rollup of the history rows
ComputeQuizStats(historyData) ==
    LET totalQuizzes == Len(historyData)
        totalScore   == SumOrNaN([k \in DOMAIN historyData |-> historyData[k].percentage])
    IN  [totalQuizzes  |-> totalQuizzes,
         averageScore  |-> IF totalQuizzes > 0
                              THEN RoundedMean(totalScore, totalQuizzes) ELSE 0,
         passedQuizzes |-> CountWhere([k \in DOMAIN historyData |-> historyData[k].isPassed]),
         totalScore    |-> totalScore]

\* lines 167-169: the success rate shown on the card
SuccessRate(quizStats) ==
    IF quizStats.totalQuizzes > 0
        THEN Percentage(quizStats.passedQuizzes, quizStats.totalQuizzes)
        ELSE 0

\* useAuth(): the signed-in user changes; the effect of line 38 depends on it
AuthChange(u) ==
    /\ comp = "QuizHistory"
    /\ mounted
    /\ u # authUser
    /\ Len(inflight) < MaxInflight
    /\ authUser' = u
    /\ effectDue' = TRUE
    /\ UNCHANGED <<comp, mounted, loading, statsVars, contentVars, quizData, analytics,
                   history, historyStats>>

\* (mutation) the effect starts fetchQuizHistory without testing the user
HistoryEffectWithoutUserTest ==
    /\ comp = "QuizHistory"
    /\ mounted /\ effectDue
    /\ effectDue' = FALSE
    /\ loading' = TRUE
    /\ inflight' = Append(inflight, authUser)
    /\ UNCHANGED <<comp, mounted, now, profiles, stats, contentVars, authUser, quizData,
                   analytics, history, historyStats>>

\* lines 38-61: the effect runs; with a user present fetchQuizHistory starts,
\* and its query is filtered by that user
HistoryEffect ==
    /\ comp = "QuizHistory"
    /\ mounted /\ effectDue
    /\ effectDue' = FALSE
    /\ IF authUser # NoUser
          THEN /\ loading' = TRUE
               /\ inflight' = Append(inflight, authUser)
          ELSE UNCHANGED <<loading, inflight>>
    /\ UNCHANGED <<comp, mounted, now, profiles, stats, contentVars, authUser, quizData,
                   analytics, history, historyStats>>

\* (mutation) a fetch replaces the history and leaves its rollup as it was
HistoryFetchSettleKeepingStats(i, outcome) ==
    /\ comp = "QuizHistory"
    /\ i \in DOMAIN inflight
    /\ inflight' = RemoveAt(inflight, i)
    /\ IF outcome = "data"
          THEN \E attempts \in AttemptResults(quizData, inflight[i]) :
                  /\ history' = ComputeHistory(attempts)
                  /\ UNCHANGED historyStats
          ELSE UNCHANGED <<history, historyStats>>
    /\ loading' = FALSE
    /\ UNCHANGED <<comp, mounted, effectDue, now, profiles, stats, contentVars, authUser,
                   quizData, analytics>>

\* (mutation) the rows of a fetch are added to the history already held
HistoryFetchSettleAppending(i, outcome) ==
    /\ comp = "QuizHistory"
    /\ i \in DOMAIN inflight
    /\ inflight' = RemoveAt(inflight, i)
    /\ IF outcome = "data"
          THEN \E attempts \in AttemptResults(quizData, inflight[i]) :
                  /\ history' = history \o ComputeHistory(attempts)
                  /\ historyStats' = ComputeQuizStats(ComputeHistory(attempts))
          ELSE UNCHANGED <<history, historyStats>>
    /\ loading' = FALSE
    /\ UNCHANGED <<comp, mounted, effectDue, now, profiles, stats, contentVars, authUser,
                   quizData, analytics>>

\* (mutation) a failed fetch resets the history and its rollup
HistoryFetchSettleClearing(i, outcome) ==
    /\ comp = "QuizHistory"
    /\ i \in DOMAIN inflight
    /\ inflight' = RemoveAt(inflight, i)
    /\ IF outcome = "data"
          THEN \E attempts \in AttemptResults(quizData, inflight[i]) :
                  /\ history' = ComputeHistory(attempts)
                  /\ historyStats' = ComputeQuizStats(ComputeHistory(attempts))
          ELSE /\ history' = <<>>
               /\ historyStats' = InitialQuizStats
    /\ loading' = FALSE
    /\ UNCHANGED <<comp, mounted, effectDue, now, profiles, stats, contentVars, authUser,
                   quizData, analytics>>

\* lines 48-102: the response to the query of inflight[i] arrives
HistoryFetchSettle(i, outcome) ==
    /\ comp = "QuizHistory"
    /\ i \in DOMAIN inflight
    /\ inflight' = RemoveAt(inflight, i)
    /\ IF outcome = "data"
          THEN \E attempts \in AttemptResults(quizData, inflight[i]) :
                  /\ history' = ComputeHistory(attempts)
                  /\ historyStats' = ComputeQuizStats(ComputeHistory(attempts))
          ELSE UNCHANGED <<history, historyStats>>
    /\ loading' = FALSE
    /\ UNCHANGED <<comp, mounted, effectDue, now, profiles, stats, contentVars, authUser,
                   quizData, analytics>>

(***************************************************************************)
(* Inputs of UserStatistics: the current date ranges over NowSpan days     *)
(* from Saturday 28 December 2024, the rows over the instants around       *)
(* the week and month boundaries of that date.                             *)
(***************************************************************************)
FirstNowDay == MonthStartDay[12] - 4      \* Saturday 28 December 2024

NowSet == (FirstNowDay * TicksPerDay)..((FirstNowDay + NowSpan) * TicksPerDay - 1)

\* local midnight of the most recent Sunday (today, on a Sunday)
WeekStartOf(t) == (DayOf(t) - getDay(t)) * TicksPerDay

\* local midnight of the first day of the month k months before the month of t
MonthStartOf(t, k) == MonthStartDay[MonthIndex(t) - k] * TicksPerDay

ProfileTimes(t) ==
    {WeekStartOf(t) - 1, WeekStartOf(t), WeekStartOf(t) + 1, t,
     MonthStartOf(t, 0) - 1, MonthStartOf(t, 0), MonthStartOf(t, -1),
     MonthStartOf(t, 5) - 1, MonthStartOf(t, 5), MonthStartOf(t, 6)}

ProfileRows(t) == [role : Roles, created_at : ProfileTimes(t)]

ProfileTables(t) ==
    {s \in UNION {[1..n -> ProfileRows(t)] : n \in 0..MaxUsers} : NewestFirst(s)}

ContentIdle ==
    /\ tables = [t \in Tables |-> {}]
    /\ content = <<>>
    /\ fetches = <<>>
    /\ editingItem = <<>>
    /\ editDialogOpen = FALSE
    /\ editForm = [title |-> "", description |-> "", subject |-> ""]
    /\ writes = <<>>
    /\ writesIssued = 0
    /\ faults = 0
    /\ toast = <<>>
    /\ toastCount = 0

QuizIdle ==
    /\ authUser = NoUser
    /\ quizData = <<>>
    /\ analytics = <<>>
    /\ history = <<>>
    /\ historyStats = InitialQuizStats

InitStats ==
    /\ comp = "UserStatistics"
    /\ mounted = TRUE
    /\ effectDue = TRUE
    /\ loading = TRUE
    /\ inflight = <<>>
    /\ now \in NowSet
    /\ profiles \in ProfileTables(now)
    /\ stats = InitialUserStats
    /\ ContentIdle
    /\ QuizIdle

NextStats ==
    \/ StatsFetchStart
    \/ \E outcome \in QueryOutcomes : StatsFetchSettle(outcome)

SpecStats == InitStats /\ [][NextStats]_vars

(***************************************************************************)
(* Inputs of ContentManagement.  Row k of a store has the optional columns *)
(* description and subject absent when k is odd.                           *)
(***************************************************************************)
ContentRow(id, created_at, k) ==
    [id |-> id, title |-> "a",
     description |-> IF k % 2 = 1 THEN Null ELSE "d",
     subject |-> IF k % 2 = 1 THEN Null ELSE "s",
     created_at |-> created_at]

\* the store holding row k in table place[k].table
StoreOf(place) ==
    [t \in Tables |->
        {ContentRow(place[k].id, place[k].created_at, k) :
            k \in {j \in DOMAIN place : place[j].table = t}}]

\* identities are primary keys: no two rows of a table share one
UniqueIds(place) ==
    \A j, k \in DOMAIN place :
        (j # k /\ place[j].table = place[k].table) => place[j].id # place[k].id

\* stores of at most MaxRows rows; identities may repeat across tables, row k
\* is created at time k
ContentStores ==
    UNION {{StoreOf([k \in 1..n |-> [table |-> place[k].table, id |-> place[k].id,
                                      created_at |-> k]]) :
              place \in {q \in [1..n -> [table : Tables, id : 1..MaxId]] : UniqueIds(q)}} :
           n \in 0..MaxRows}

\* stores of at most MergeRows rows of any creation times, row k has identity k
MergeStores ==
    UNION {{StoreOf([k \in 1..n |-> [table |-> place[k].table, id |-> k,
                                      created_at |-> place[k].created_at]]) :
              place \in [1..n -> [table : Tables, created_at : 1..MaxTime]]} :
           n \in 0..MergeRows}

StatsIdle ==
    /\ inflight = <<>>
    /\ now = FirstNowDay * TicksPerDay
    /\ profiles = <<>>
    /\ stats = InitialUserStats

InitContentWith(stores) ==
    /\ comp = "ContentManagement"
    /\ mounted = TRUE
    /\ effectDue = TRUE
    /\ loading = TRUE
    /\ StatsIdle
    /\ QuizIdle
    /\ tables \in stores
    /\ content = <<>>
    /\ fetches = <<>>
    /\ editingItem = <<>>
    /\ editDialogOpen = FALSE
    /\ editForm = [title |-> "", description |-> "", subject |-> ""]
    /\ writes = <<>>
    /\ writesIssued = 0
    /\ faults = 0
    /\ toast = <<>>
    /\ toastCount = 0

InitContent == InitContentWith(ContentStores)

InitMerge == InitContentWith(MergeStores)

\* the mount effect's fetchAllContent alone
NextMerge ==
    \/ ContentMountEffect
    \/ \E f \in DOMAIN fetches, t \in Tables : SubFetchData(f, t)
    \/ \E f \in DOMAIN fetches, t \in Tables : SubFetchError(f, t)
    \/ \E f \in DOMAIN fetches, t \in Tables : SubFetchReject(f, t)
    \/ \E f \in DOMAIN fetches : FetchAllContentJoin(f)

SpecMerge == InitMerge /\ [][NextMerge]_vars

\* the whole component; the responses of one fetch's queries arrive together
NextContent ==
    \/ ContentMountEffect
    \/ \E f \in DOMAIN fetches : SubFetchDataAll(f)
    \/ \E f \in DOMAIN fetches, t \in Tables : SubFetchError(f, t)
    \/ \E f \in DOMAIN fetches, t \in Tables : SubFetchReject(f, t)
    \/ \E f \in DOMAIN fetches : FetchAllContentJoin(f)
    \/ \E k \in DOMAIN content : handleEdit(k)
    \/ \E field \in {"title", "description", "subject"} :
          \E value \in FormValues(field) : ChangeField(field, value)
    \/ CancelEdit
    \/ handleSaveEdit
    \/ \E k \in DOMAIN content : handleDelete(k)
    \/ \E w \in DOMAIN writes : SaveEditOk(w)
    \/ \E w \in DOMAIN writes : SaveEditFail(w)
    \/ \E w \in DOMAIN writes : DeleteOk(w)
    \/ \E w \in DOMAIN writes : DeleteFail(w)

SpecContent == InitContent /\ [][NextContent]_vars

(***************************************************************************)
(* Inputs of the quiz components.  Attempt k of a quiz has identity k and  *)
(* its profile's full_name absent when k is odd.                           *)
(***************************************************************************)
\* score and total_questions of an attempt: 0 <= score <= total_questions
Marks == {m \in (0..MaxQuestions) \X (1..MaxQuestions) : m[1] <= m[2]}

\* the sequences of n attempts
AttemptSeqs(n) ==
    {[k \in 1..n |-> [id |-> k, user_id |-> a[k].user_id,
                      full_name |-> IF k % 2 = 1 THEN Null ELSE "n",
                      score |-> a[k].marks[1], total_questions |-> a[k].marks[2],
                      completed_at |-> a[k].completed_at]] :
        a \in [1..n -> [user_id : Users, marks : Marks, completed_at : 1..MaxTime]]}

\* the quizzes table: one quiz of n attempts, with or without a title, or
\* (for n = 0) also no quiz at all
QuizStores(n) ==
    (IF n = 0 THEN {<<>>} ELSE {})
        \cup {<<[id |-> 1, title |-> title, quiz_attempts |-> attempts]>> :
                 title \in {"q", Null}, attempts \in AttemptSeqs(n)}

InitAnalytics ==
    /\ comp = "QuizAnalytics"
    /\ mounted = TRUE
    /\ effectDue = TRUE
    /\ loading = TRUE
    /\ StatsIdle
    /\ ContentIdle
    /\ authUser = NoUser
    /\ \E n \in 0..MaxAttempts : quizData \in QuizStores(n)
    /\ analytics = <<>>
    /\ history = <<>>
    /\ historyStats = InitialQuizStats

InitHistory ==
    /\ comp = "QuizHistory"
    /\ mounted = TRUE
    /\ effectDue = TRUE
    /\ loading = TRUE
    /\ StatsIdle
    /\ ContentIdle
    /\ authUser \in Users \cup {NoUser}
    /\ \E n \in 0..MaxAttempts : quizData \in QuizStores(n)
    /\ analytics = <<>>
    /\ history = <<>>
    /\ historyStats = InitialQuizStats

(***************************************************************************)
(* The quiz components alone, each with the one fetch its mount starts.    *)
(* The store holds a quiz of at most MaxAttempts attempts over few         *)
(* questions, a quiz with one attempt over up to MaxTotal questions, or   *)
(* a quiz with two attempts over PairTotal questions each, or a quiz with  *)
(* LongHistory attempts of one user.                                       *)
(***************************************************************************)
SingleAttemptStores ==
    {<<[id |-> 1, title |-> "q",
        quiz_attempts |-> <<[id |-> 1, user_id |-> "u1", full_name |-> "n",
                             score |-> m[1], total_questions |-> m[2],
                             completed_at |-> 1]>>]>> :
        m \in {p \in (0..MaxTotal) \X (1..MaxTotal) : p[1] <= p[2]}}

\* a quiz with two attempts over the same PairTotal questions
PairAttemptStores ==
    {<<[id |-> 1, title |-> "q",
        quiz_attempts |-> <<[id |-> 1, user_id |-> "u1", full_name |-> "n",
                             score |-> m[1], total_questions |-> PairTotal,
                             completed_at |-> 2],
                            [id |-> 2, user_id |-> "u1", full_name |-> "n",
                             score |-> m[2], total_questions |-> PairTotal,
                             completed_at |-> 1]>>]>> :
        m \in (0..PairTotal) \X (0..PairTotal)}

\* a quiz with LongHistory attempts of one user, each a full or an empty score
LongHistoryStores ==
    {<<[id |-> 1, title |-> "q",
        quiz_attempts |-> [k \in 1..LongHistory |->
                              [id |-> k, user_id |-> "u1", full_name |-> "n",
                               score |-> IF k \in full THEN 1 ELSE 0, total_questions |-> 1,
                               completed_at |-> k]]]>> :
        full \in SUBSET (1..LongHistory)}

InitQuiz ==
    /\ \/ comp = "QuizAnalytics" /\ authUser = NoUser
       \/ comp = "QuizHistory" /\ authUser \in Users \cup {NoUser}
    /\ mounted = TRUE
    /\ effectDue = TRUE
    /\ loading = TRUE
    /\ StatsIdle
    /\ ContentIdle
    /\ \/ quizData \in SingleAttemptStores
       \/ quizData \in PairAttemptStores
       \/ quizData \in LongHistoryStores
       \/ \E n \in 0..MaxAttempts : quizData \in QuizStores(n)
    /\ analytics = <<>>
    /\ history = <<>>
    /\ historyStats = InitialQuizStats

NextQuiz ==
    \/ AnalyticsFetchStart
    \/ \E i \in DOMAIN inflight, outcome \in QuizQueryOutcomes : AnalyticsFetchSettle(i, outcome)
    \/ HistoryEffect
    \/ \E i \in DOMAIN inflight, outcome \in QuizQueryOutcomes : HistoryFetchSettle(i, outcome)

SpecQuiz == InitQuiz /\ [][NextQuiz]_vars

(***************************************************************************)
(* QuizHistory while it is mounted.  React runs a pending effect, and the  *)
(* store answers every query in the end; the user need not ever change.    *)
(***************************************************************************)
NextHistory ==
    \/ \E u \in Users \cup {NoUser} : AuthChange(u)
    \/ HistoryEffect
    \/ \E i \in DOMAIN inflight, outcome \in QuizQueryOutcomes : HistoryFetchSettle(i, outcome)

SpecHistoryFair ==
    /\ InitHistory
    /\ [][NextHistory]_vars
    /\ WF_vars(HistoryEffect)
    /\ WF_vars(\E i \in DOMAIN inflight, outcome \in QuizQueryOutcomes :
                   HistoryFetchSettle(i, outcome))

(***************************************************************************)
(* The quiz components with a store whose attempts may be over a quiz of   *)
(* no questions: total_questions = 0, and then score = 0.                  *)
(***************************************************************************)
ZeroTotalMarks == Marks \cup {<<0, 0>>}

ZeroTotalStores ==
    {<<[id |-> 1, title |-> "q",
        quiz_attempts |-> [k \in 1..n |->
                              [id |-> k, user_id |-> a[k].user_id, full_name |-> "n",
                               score |-> a[k].marks[1], total_questions |-> a[k].marks[2],
                               completed_at |-> k]]]>> :
        <<n, a>> \in UNION {{<<m, b>> : b \in [1..m -> [user_id : Users, marks : ZeroTotalMarks]]} :
                               m \in 1..MaxAttempts}}

InitZeroTotal ==
    /\ \/ comp = "QuizAnalytics" /\ authUser = NoUser
       \/ comp = "QuizHistory" /\ authUser \in Users
    /\ mounted = TRUE
    /\ effectDue = TRUE
    /\ loading = TRUE
    /\ StatsIdle
    /\ ContentIdle
    /\ quizData \in ZeroTotalStores
    /\ analytics = <<>>
    /\ history = <<>>
    /\ historyStats = InitialQuizStats

SpecZeroTotal == InitZeroTotal /\ [][NextQuiz]_vars

(***************************************************************************)
(* The life of one component instance, of any of the four components,      *)
(* from its mount to after its teardown.                                   *)
(***************************************************************************)
InitLife == InitStats \/ InitAnalytics \/ InitHistory \/ InitMerge

NextLife ==
    \/ StatsFetchStart
    \/ \E outcome \in QueryOutcomes : StatsFetchSettle(outcome)
    \/ AnalyticsFetchStart
    \/ \E i \in DOMAIN inflight, outcome \in QuizQueryOutcomes : AnalyticsFetchSettle(i, outcome)
    \/ \E u \in Users \cup {NoUser} : AuthChange(u)
    \/ HistoryEffect
    \/ \E i \in DOMAIN inflight, outcome \in QuizQueryOutcomes : HistoryFetchSettle(i, outcome)
    \/ ContentMountEffect
    \/ \E f \in DOMAIN fetches, t \in Tables : SubFetchData(f, t)
    \/ \E f \in DOMAIN fetches, t \in Tables : SubFetchError(f, t)
    \/ \E f \in DOMAIN fetches, t \in Tables : SubFetchReject(f, t)
    \/ \E f \in DOMAIN fetches : FetchAllContentJoin(f)
    \/ Unmount

SpecLife == InitLife /\ [][NextLife]_vars

(***************************************************************************)
(* Properties of UserStatistics                                            *)
(***************************************************************************)
\* the fetch has filled stats
StatsComputed == comp = "UserStatistics" /\ stats # InitialUserStats

\* the most recent Sunday lies in the previous calendar month
SundayInPreviousMonth == WeekStartOf(now) < MonthStartOf(now, 0)

CreatedIn(lo, hi) ==
    Cardinality({i \in 1..Len(profiles) :
                    profiles[i].created_at >= lo /\ profiles[i].created_at < hi})

CreatedSince(lo) ==
    Cardinality({i \in 1..Len(profiles) : profiles[i].created_at >= lo})

\* C1: monthlyGrowth has exactly 6 buckets, oldest to newest; the newest is the
\* current calendar month, the others the five months before it, and bucket j
\* counts the rows created in [start of its month, start of the next month).
C1_MonthlyGrowthCoversCurrentMonth ==
    StatsComputed =>
        /\ Len(stats.monthlyGrowth) = 6
        /\ \A j \in 1..6 :
              /\ stats.monthlyGrowth[j].month = MonthLabel(MonthStartOf(now, 6 - j))
              /\ stats.monthlyGrowth[j].count =
                     CreatedIn(MonthStartOf(now, 6 - j), MonthStartOf(now, 5 - j))

\* C2: newUsersThisWeek counts the rows created at or after the week start, the
\* local midnight of the most recent Sunday, with no upper bound.
C2_WeekCountsFromSundayMidnight ==
    StatsComputed => stats.newUsersThisWeek = CreatedSince(WeekStartOf(now))

\* C3: newUsersThisMonth counts the rows created at or after local midnight of
\* the first day of the current month, inclusive, with no upper bound.
C3_MonthCountsFromFirstDay ==
    StatsComputed => stats.newUsersThisMonth = CreatedSince(MonthStartOf(now, 0))

\* C3 witness: on a day whose Sunday lies in the previous month, of a row created
\* exactly at the month start and a row created the instant before, only the
\* first is counted.
C3_Witness ==
    /\ StatsComputed
    /\ SundayInPreviousMonth
    /\ \E i, k \in 1..Len(profiles) :
          /\ profiles[i].created_at = MonthStartOf(now, 0)
          /\ profiles[k].created_at = MonthStartOf(now, 0) - 1
    /\ stats.newUsersThisMonth = 1

(***************************************************************************)
(* Properties of ContentManagement                                         *)
(***************************************************************************)
\* the collection each variant originates from, as the specification gives it
CollectionOfVariant ==
    [book |-> "books", video |-> "videos", course |-> "courses", quiz |-> "quizzes"]

VariantOfCollection ==
    [books |-> "book", videos |-> "video", courses |-> "course", quizzes |-> "quiz"]

RowTotal(store) ==
    Cardinality(store["books"]) + Cardinality(store["videos"])
        + Cardinality(store["courses"]) + Cardinality(store["quizzes"])

\* items is sorted non-increasing by creation timestamp
SortedNewestFirst(items) ==
    \A k \in 1..(Len(items) - 1) : items[k].createdAt >= items[k + 1].createdAt

\* items holds, for each row of each table of from, exactly one item tagged with
\* the table's variant and carrying the row's columns, and nothing else
TaggedUnionOf(items, store, from) ==
    /\ \A t \in from : \A row \in store[t] :
          Cardinality({k \in DOMAIN items :
                          /\ items[k].type = VariantOfCollection[t]
                          /\ items[k].id = row.id
                          /\ items[k].title = row.title
                          /\ items[k].description = row.description
                          /\ items[k].subject = row.subject
                          /\ items[k].createdAt = row.created_at}) = 1
    /\ \A k \in DOMAIN items :
          \E t \in from : \E row \in store[t] :
              items[k].type = VariantOfCollection[t] /\ items[k].id = row.id

\* the mount fetch has completed
MountFetchSettled ==
    comp = "ContentManagement" /\ ~effectDue /\ fetches = <<>> /\ writesIssued = 0

\* C4: when all four queries resolve without error, content is a permutation of
\* the union of the four collections, every row tagged with the variant of its
\* collection (so its length is the sum of the four lengths), sorted
\* non-increasing by creation timestamp.
C4_MergeIsSortedTaggedUnion ==
    (MountFetchSettled /\ faults = 0) =>
        /\ Len(content) = RowTotal(tables)
        /\ TaggedUnionOf(content, tables, Tables)
        /\ SortedNewestFirst(content)

\* C4 witness: a video newer than a book has been merged in front of it, though
\* the books are concatenated first.
C4_Witness ==
    /\ MountFetchSettled /\ faults = 0
    /\ Len(content) = 2
    /\ content[1].type = "video" /\ content[2].type = "book"
    /\ content[1].createdAt > content[2].createdAt

\* the tables of a fetch's results that resolved with an error
FailedTables(results) == {t \in Tables : results[t].kind = "error"}

\* the store a fetch has seen: the rows its successful queries returned
SeenStore(results) ==
    [t \in Tables |-> IF results[t].kind = "data"
                        THEN {results[t].rows[i] : i \in DOMAIN results[t].rows}
                        ELSE {}]

\* C7: a query that resolves with an error and no data counts as an empty
\* collection: content is still replaced, by the sorted merge of the collections
\* whose queries succeeded.
C7_FailedQueryCountsAsEmpty ==
    [][\A f \in DOMAIN fetches :
          (FetchAllContentJoin(f) /\ FailedTables(fetches[f]) # {}) =>
              /\ TaggedUnionOf(content', SeenStore(fetches[f]),
                               Tables \ FailedTables(fetches[f]))
              /\ Len(content') = RowTotal(SeenStore(fetches[f]))
              /\ SortedNewestFirst(content')]_vars

\* C7 witness: the query of a table that holds a row failed, and the rows of the
\* other tables were merged.
C7_Witness ==
    /\ MountFetchSettled /\ faults = 1 /\ toastCount = 0
    /\ content # <<>>
    /\ Len(content) < RowTotal(tables)

\* C8: the four queries are started together and content is written only after
\* all four have completed; when a query rejects no merge is written, the
\* previous content is left as it was and the failure is notified.
C8_JoinAfterAllOrRejectWhole ==
    [][/\ Len(fetches') > Len(fetches) =>
             /\ Len(fetches') = Len(fetches) + 1
             /\ \A t \in Tables : fetches'[Len(fetches')][t] = Pending
       /\ content' # content =>
             \E f \in DOMAIN fetches :
                 /\ \A t \in Tables : fetches[f][t].kind \in {"data", "error"}
                 /\ fetches' = RemoveAt(fetches, f)
       /\ \A f \in DOMAIN fetches : \A t \in Tables :
             SubFetchReject(f, t) =>
                 /\ content' = content
                 /\ fetches' = RemoveAt(fetches, f)
                 /\ toast' = <<FetchErrorToast>>
                 /\ toastCount' = toastCount + 1]_vars

\* C8 witness: a re-fetch was rejected while items were displayed; they still are.
C8_Witness ==
    /\ comp = "ContentManagement"
    /\ writesIssued > 0
    /\ toast = <<FetchErrorToast>>
    /\ fetches = <<>> /\ ~loading
    /\ content # <<>>

\* C5, as stated: a successful delete removes exactly one row, of the
\* collection of the item's variant, and no row of another collection.
C5_DeleteRemovesExactlyOneRow ==
    [][\A w \in DOMAIN writes :
          DeleteOk(w) =>
              /\ RowTotal(tables') = RowTotal(tables) - 1
              /\ \A t \in Tables \ {CollectionOfVariant[writes[w].type]} :
                    tables'[t] = tables[t]]_vars

\* C5, amended: handleDelete sends the deletion to the collection of the item's
\* variant, filtered by the item's identity; when it succeeds that collection
\* loses the row of that identity (one row if it was still stored, none if the
\* displayed item was stale) and every other collection keeps all its rows.
C5_DeleteRoutedByVariantAndIdentity ==
    [][/\ \A k \in DOMAIN content :
             handleDelete(k) =>
                 /\ Len(writes') = Len(writes) + 1
                 /\ writes'[Len(writes')].op = "delete"
                 /\ writes'[Len(writes')].table = CollectionOfVariant[content[k].type]
                 /\ writes'[Len(writes')].id = content[k].id
                 /\ tables' = tables
       /\ \A w \in DOMAIN writes :
             DeleteOk(w) =>
                 LET t == CollectionOfVariant[writes[w].type]
                     hit == {row \in tables[t] : row.id = writes[w].id}
                 IN  /\ tables'[t] = tables[t] \ hit
                     /\ Cardinality(hit) <= 1
                     /\ RowTotal(tables') = RowTotal(tables) - Cardinality(hit)
                     /\ \A u \in Tables \ {t} : tables'[u] = tables[u]]_vars

\* C5 witness: a video was deleted while the books hold a row of the same
\* identity, which is still stored.
C5_Witness ==
    /\ comp = "ContentManagement"
    /\ toast = <<DeletedToast("video")>>
    /\ tables["videos"] = {}
    /\ \E k \in DOMAIN content :
          /\ content[k].type = "video"
          /\ \E row \in tables["books"] : row.id = content[k].id

\* C6: a successful save has sent exactly one update, carrying only title,
\* description and subject, to the collection of the edited item's variant,
\* filtered by the item's identity; a re-fetch of all four collections is then
\* started, and content changes only when a fetch completes.
C6_SaveSendsOneUpdateThenRefetches ==
    [][/\ handleSaveEdit =>
             /\ Len(writes') = Len(writes) + 1
             /\ writesIssued' = writesIssued + 1
             /\ writes'[Len(writes')].op = "update"
             /\ writes'[Len(writes')].table = CollectionOfVariant[editingItem[1].type]
             /\ writes'[Len(writes')].id = editingItem[1].id
             /\ DOMAIN writes'[Len(writes')].data = {"title", "description", "subject"}
             /\ writes'[Len(writes')].data = editForm
             /\ content' = content /\ tables' = tables /\ fetches' = fetches
       /\ \A w \in DOMAIN writes :
             SaveEditOk(w) =>
                 /\ writesIssued' = writesIssued
                 /\ writes' = RemoveAt(writes, w)
                 /\ Len(fetches') = Len(fetches) + 1
                 /\ \A t \in Tables : fetches'[Len(fetches')][t] = Pending
                 /\ content' = content
       /\ content' # content =>
             \E f \in DOMAIN fetches :
                 /\ \A t \in Tables : fetches[f][t] # Pending
                 /\ fetches' = RemoveAt(fetches, f)
                 /\ writes' = writes]_vars

\* C6 witness: the update of a title has succeeded and its re-fetch is in
\* flight; the store holds the new title, content still shows the old one.
C6_Witness ==
    /\ comp = "ContentManagement"
    /\ \E type \in {"book", "video", "course", "quiz"} : toast = <<UpdatedToast(type)>>
    /\ loading /\ Len(fetches) = 1
    /\ \E t \in Tables : \E row \in tables[t] : row.title = "b"
    /\ content # <<>>
    /\ \A k \in DOMAIN content : content[k].title = "a"

\* C9: when the store rejects an update or a delete, the request is not sent
\* again, no re-fetch is started, content is unchanged and the failure is
\* notified; a request is sent only by a user action on the rendered component.
C9_RejectedWriteIsTerminal ==
    [][/\ \A w \in DOMAIN writes :
             (SaveEditFail(w) \/ DeleteFail(w)) =>
                 /\ writesIssued' = writesIssued
                 /\ writes' = RemoveAt(writes, w)
                 /\ fetches' = fetches
                 /\ loading' = loading
                 /\ content' = content
                 /\ tables' = tables
                 /\ toastCount' = toastCount + 1
                 /\ toast' = <<IF writes[w].op = "update" THEN UpdateErrorToast
                                                           ELSE DeleteErrorToast>>
       /\ (writesIssued' # writesIssued \/ Len(writes') > Len(writes)) =>
             /\ mounted /\ ~loading
             /\ writesIssued' = writesIssued + 1
             /\ Len(writes') = Len(writes) + 1
             /\ toastCount' = toastCount]_vars

\* C9 witness: an update was rejected: the dialog is still open, nothing is in
\* flight and the store row is unchanged.
C9_Witness ==
    /\ comp = "ContentManagement"
    /\ toast = <<UpdateErrorToast>>
    /\ editDialogOpen /\ editForm.title = "b"
    /\ writes = <<>> /\ fetches = <<>> /\ ~loading
    /\ writesIssued = 1
    /\ \A t \in Tables : \A row \in tables[t] : row.title = "a"

(***************************************************************************)
(* Properties of the component life cycle                                  *)
(***************************************************************************)
\* C10: once the component is unmounted, no step writes to its state: a fetch
\* that completes after the teardown leaves stats, history (and its rollup),
\* analytics, content and loading as they were
C10_UnmountDiscardsFetchResults ==
    [][~mounted => UNCHANGED <<stats, history, historyStats, analytics, content, loading>>]_vars

(***************************************************************************)
(* Properties of failed fetches                                            *)
(***************************************************************************)
\* the outcomes of a query that are failures
FailedOutcomes == QuizQueryOutcomes \ {"data"}

\* C11: a fetch of UserStatistics, QuizAnalytics or QuizHistory that fails (an
\* error result, no data, or a rejection) leaves stats, analytics, history and
\* the history rollup exactly as they were.
C11_FailedFetchKeepsDerivedState ==
    [][\A outcome \in FailedOutcomes :
          /\ (outcome \in QueryOutcomes /\ StatsFetchSettle(outcome)) => stats' = stats
          /\ \A i \in DOMAIN inflight :
                /\ AnalyticsFetchSettle(i, outcome) => analytics' = analytics
                /\ HistoryFetchSettle(i, outcome) =>
                      history' = history /\ historyStats' = historyStats]_vars

\* C11 witness: the only fetch of UserStatistics has failed although the store
\* holds profiles: the statistics are still the ones held before the fetch.
C11_Witness ==
    /\ comp = "UserStatistics"
    /\ ~effectDue /\ inflight = <<>> /\ ~loading
    /\ profiles # <<>>
    /\ stats = InitialUserStats

\* C12: every failed fetch, in each of the four components, raises a
\* notification.
C12_FailedFetchIsNotified ==
    [][/\ \A outcome \in FailedOutcomes :
             /\ (outcome \in QueryOutcomes /\ StatsFetchSettle(outcome)) =>
                    toastCount' = toastCount + 1
             /\ \A i \in DOMAIN inflight :
                   (AnalyticsFetchSettle(i, outcome) \/ HistoryFetchSettle(i, outcome)) =>
                       toastCount' = toastCount + 1
       /\ \A f \in DOMAIN fetches : \A t \in Tables :
             SubFetchReject(f, t) => toastCount' = toastCount + 1]_vars

(***************************************************************************)
(* Properties of the quiz arithmetic.  The reference values are exact:     *)
(* quotients are compared over a common denominator.                       *)
(***************************************************************************)
RECURSIVE ProductOver(_, _)
ProductOver(vals, k) == IF k = 0 THEN 1 ELSE ProductOver(vals, k - 1) * vals[k]

\* the attempts of the quiz that entry q of analytics was computed from
AttemptsOfEntry(q) == quizData[q].quiz_attempts

\* the exact mean of score / total_questions * 100 over attempts, rounded half up
ExactCompletionRate(attempts) ==
    LET totals == [k \in DOMAIN attempts |-> attempts[k].total_questions]
        common == ProductOver(totals, Len(totals))
    IN  RoundDiv(Sum([k \in DOMAIN attempts |->
                         100 * attempts[k].score * (common \div attempts[k].total_questions)]),
                 Len(attempts) * common)

\* C13: for each quiz, totalAttempts is the number of attempts, averageScore the
\* mean raw score rounded half up to one decimal, completionRate the mean of the
\* unrounded percentages rounded half up to an integer, students one entry per
\* attempt in input order; all zero and empty without attempts.
C13_AnalyticsAggregates ==
    \A q \in DOMAIN analytics :
        LET attempts == AttemptsOfEntry(q)
            n        == Len(attempts)
            entry    == analytics[q]
        IN  /\ entry.totalAttempts = n
            /\ entry.averageScore10 =
                   (IF n = 0 THEN 0
                    ELSE RoundDiv(10 * Sum([k \in DOMAIN attempts |-> attempts[k].score]), n))
            /\ entry.completionRate = (IF n = 0 THEN 0 ELSE ExactCompletionRate(attempts))
            /\ Len(entry.students) = n
            /\ \A k \in DOMAIN attempts :
                  /\ entry.students[k].id = attempts[k].user_id
                  /\ entry.students[k].score = attempts[k].score
                  /\ entry.students[k].completedAt = attempts[k].completed_at

\* C14: each history row's percentage is score / totalQuestions * 100 rounded
\* half up, isPassed holds exactly when that percentage is at least 70, that is
\* exactly when 200 * score >= 139 * totalQuestions.
C14_PercentageAndPassMark ==
    \A k \in DOMAIN history :
        /\ history[k].percentage = RoundDiv(100 * history[k].score, history[k].totalQuestions)
        /\ history[k].isPassed <=> history[k].percentage >= 70
        /\ history[k].isPassed <=> 200 * history[k].score >= 139 * history[k].totalQuestions

\* C20: when all attempts of a quiz share one total_questions T, completionRate
\* is the mean raw score / T * 100 rounded half up; with different totals two
\* attempt sets of equal averageScore can differ in completionRate (attempts
\* 1/1 and 1/2 against 1/2 and 1/2: averageScore 1.0, completionRate 75 and 50).
C20_CompletionRateFromMeanScore ==
    /\ \A q \in DOMAIN analytics :
          LET attempts == AttemptsOfEntry(q)
              n        == Len(attempts)
          IN  (n > 0 /\ \A k \in DOMAIN attempts :
                           attempts[k].total_questions = attempts[1].total_questions)
                  => analytics[q].completionRate =
                         RoundDiv(100 * Sum([k \in DOMAIN attempts |-> attempts[k].score]),
                                  n * attempts[1].total_questions)
    /\ \A q \in DOMAIN analytics :
          LET attempts == AttemptsOfEntry(q)
              Marked(k, score, total) ==
                  attempts[k].score = score /\ attempts[k].total_questions = total
          IN  /\ (Len(attempts) = 2 /\ Marked(1, 1, 1) /\ Marked(2, 1, 2))
                     => analytics[q].averageScore10 = 10 /\ analytics[q].completionRate = 75
              /\ (Len(attempts) = 2 /\ Marked(1, 1, 2) /\ Marked(2, 1, 2))
                     => analytics[q].averageScore10 = 10 /\ analytics[q].completionRate = 50

(***************************************************************************)
(* Properties of the QuizHistory rollup                                    *)
(***************************************************************************)
\* the rollup but for the success rate: totalQuizzes is the number of rows,
\* averageScore the rounded mean of their percentages (0 without rows),
\* passedQuizzes the number of rows with isPassed
RollupOfHistory ==
    LET n == Len(history)
    IN  /\ historyStats.totalQuizzes = n
        /\ historyStats.averageScore =
               (IF n = 0 THEN 0
                ELSE RoundDiv(Sum([k \in DOMAIN history |-> history[k].percentage]), n))
        /\ historyStats.passedQuizzes =
               Cardinality({k \in DOMAIN history : history[k].isPassed})
        /\ 0 <= historyStats.passedQuizzes
        /\ historyStats.passedQuizzes <= historyStats.totalQuizzes

\* C15 (as stated): the rollup of the history rows, with the success rate equal
\* to passedQuizzes / totalQuizzes * 100, 0 without rows, and within 0..100.
C15_RollupWithExactSuccessRate ==
    /\ RollupOfHistory
    /\ SuccessRate(historyStats) \in 0..100
    /\ IF historyStats.totalQuizzes = 0
          THEN SuccessRate(historyStats) = 0
          ELSE SuccessRate(historyStats) * historyStats.totalQuizzes =
                   100 * historyStats.passedQuizzes

\* C15 (amended): the rollup of the history rows, with the success rate equal
\* to passedQuizzes / totalQuizzes * 100 rounded to an integer (at most one half
\* away from it), 0 without rows, and within 0..100.
C15_RollupWithRoundedSuccessRate ==
    /\ RollupOfHistory
    /\ SuccessRate(historyStats) \in 0..100
    /\ IF historyStats.totalQuizzes = 0
          THEN SuccessRate(historyStats) = 0
          ELSE LET excess == 2 * (SuccessRate(historyStats) * historyStats.totalQuizzes
                                    - 100 * historyStats.passedQuizzes)
               IN  /\ excess <= historyStats.totalQuizzes
                   /\ -excess <= historyStats.totalQuizzes

\* C15 witness: a history of three rows of which one is passed, shown as 33%
C15_Witness ==
    /\ Len(history) = 3
    /\ historyStats.totalQuizzes = 3
    /\ historyStats.passedQuizzes = 1
    /\ SuccessRate(historyStats) = 33

\* the rows of user u arriving in any order whatever
ArrivalOrders(u) ==
    {s \in [1..Cardinality(AttemptsOfUser(quizData, u)) -> AttemptsOfUser(quizData, u)] :
        \A i, j \in DOMAIN s : i # j => s[i] # s[j]}

NewestAttemptFirst(rows) ==
    \A k \in 1..(Len(rows) - 1) : rows[k].completedAt >= rows[k + 1].completedAt

WithRole(roles) == Cardinality({i \in 1..Len(profiles) : profiles[i].role \in roles})

\* C17: totalUsers = totalStudents + totalAdmins + the number of rows whose role
\* is neither student nor admin; those rows are counted in totalUsers and in
\* neither sub-count, and no row is counted in both sub-counts.
C17_RoleCountsPartitionUsers ==
    StatsComputed =>
        /\ stats.totalUsers = Len(profiles)
        /\ stats.totalStudents = WithRole({"student"})
        /\ stats.totalAdmins = WithRole({"admin"})
        /\ stats.totalUsers =
               stats.totalStudents + stats.totalAdmins + WithRole(Roles \ {"student", "admin"})

\* C17 witness: a student and a teacher: two users, one student, no admin
C17_Witness ==
    /\ StatsComputed
    /\ Len(profiles) = 2
    /\ WithRole({"student"}) = 1
    /\ WithRole({"teacher"}) = 1
    /\ stats.totalUsers = 2
    /\ stats.totalStudents = 1
    /\ stats.totalAdmins = 0

\* the month a bucket is labelled with: its first instant, and that of the next
LabelStart(label) == NewDate(label[1], label[2], 1)
LabelEnd(label)   == NewDate(label[1], label[2] + 1, 1)

\* C18: the six monthly-growth buckets are disjoint and contiguous: the bucket
\* months are strictly increasing, each starting where the one before ends, each
\* row is counted in at most one bucket, and the six counts sum to the number of
\* rows created in [start of the oldest bucket, end of the newest bucket).
C18_GrowthBucketsPartitionWindow ==
    StatsComputed =>
        LET g == stats.monthlyGrowth
            InBucket(i, j) == /\ profiles[i].created_at >= LabelStart(g[j].month)
                              /\ profiles[i].created_at < LabelEnd(g[j].month)
        IN  /\ Len(g) = 6
            /\ \A j \in 1..5 :
                  /\ LabelStart(g[j].month) < LabelStart(g[j + 1].month)
                  /\ LabelEnd(g[j].month) = LabelStart(g[j + 1].month)
            /\ \A j \in 1..6 :
                  g[j].count = Cardinality({i \in 1..Len(profiles) : InBucket(i, j)})
            /\ \A i \in 1..Len(profiles) :
                  Cardinality({j \in 1..6 : InBucket(i, j)}) <= 1
            /\ Sum([j \in 1..6 |-> g[j].count]) =
                   CreatedIn(LabelStart(g[1].month), LabelEnd(g[6].month))

\* C18 witness: of two rows one is counted in the oldest bucket and one lies
\* before the window and is counted in none
C18_Witness ==
    /\ StatsComputed
    /\ Len(profiles) = 2
    /\ stats.monthlyGrowth[1].count = 1
    /\ Sum([j \in 1..6 |-> stats.monthlyGrowth[j].count]) = 1
    /\ \E i \in 1..2 : profiles[i].created_at < LabelStart(stats.monthlyGrowth[1].month)

(***************************************************************************)
(* Properties of all four aggregators: what the derived state depends on   *)
(***************************************************************************)
\* what the query of table t can resolve with while the store is unchanged
ResultsOfTable(t) ==
    {[kind |-> "error"]} \cup {[kind |-> "data", rows |-> rows] : rows \in OrderedRows(tables[t])}

\* the derived state held is the initial one or the aggregate of the rows of
\* the unchanged store, whatever was held before
DerivedStateFromStore ==
    /\ \/ stats = InitialUserStats
       \/ stats = ComputeUserStats(now, profiles)
    /\ \/ analytics = <<>>
       \/ analytics = ComputeAnalytics(quizData)
    /\ \/ history = <<>> /\ historyStats = InitialQuizStats
       \/ \E u \in Users : \E rows \in AttemptResults(quizData, u) :
             /\ history = ComputeHistory(rows)
             /\ historyStats = ComputeQuizStats(ComputeHistory(rows))
    /\ \/ content = <<>>
       \/ \E b \in ResultsOfTable("books"), v \in ResultsOfTable("videos"),
             c \in ResultsOfTable("courses"), q \in ResultsOfTable("quizzes") :
             content = MergeContent([books |-> b, videos |-> v, courses |-> c, quizzes |-> q])

\* C19 (as stated): every aggregator is a function of its fetched input alone:
\* the derived state depends neither on the state held before nor on when the
\* run happens.
C19_DerivedStateFromStoreAtAnyTime ==
    /\ DerivedStateFromStore
    /\ StatsComputed => \A t \in NowSet : stats = ComputeUserStats(t, profiles)

\* C19 (amended): every aggregator is a function of its fetched input, and
\* fetchUserStatistics also of the current date: the derived state does not
\* depend on the state held before.
C19_DerivedStateFromStoreAndDate ==
    DerivedStateFromStore

\* C19 witness: statistics computed from rows that give other statistics on
\* another day
C19_Witness ==
    /\ StatsComputed
    /\ profiles # <<>>
    /\ stats = ComputeUserStats(now, profiles)
    /\ \E t \in NowSet : stats # ComputeUserStats(t, profiles)

(***************************************************************************)
(* Properties of the percentages of attempts over no questions             *)
(***************************************************************************)
IsPercentage(x) == x \in 0..100

\* C21: an attempt with total_questions = 0 has percentage 0, and the
\* per-attempt percentages, the completionRate of QuizAnalytics and the
\* averageScore of QuizHistory are always numbers within 0..100.
C21_ZeroTotalGivesNumbers ==
    /\ \A k \in DOMAIN history :
          /\ IsPercentage(history[k].percentage)
          /\ history[k].totalQuestions = 0 => history[k].percentage = 0
    /\ IsPercentage(historyStats.averageScore)
    /\ \A q \in DOMAIN analytics :
          /\ IsPercentage(analytics[q].completionRate)
          /\ \A k \in DOMAIN analytics[q].students :
                IsPercentage(analytics[q].students[k].percentage)

(***************************************************************************)
(* Properties of the week and month counts of UserStatistics               *)
(***************************************************************************)
\* the instant the week count starts at: the most recent Sunday, at the
\* current time of day
WeekCountStart == WeekStartOf(now) + TimeOfDay(now)

\* C22: newUsersThisWeek <= newUsersThisMonth is not an invariant: when the
\* most recent Sunday lies in the previous month the week count exceeds the
\* month count by the rows created from then up to the start of the month (and
\* otherwise it does not exceed it).
C22_WeekCountCanExceedMonthCount ==
    StatsComputed =>
        IF WeekCountStart < MonthStartOf(now, 0)
            THEN stats.newUsersThisWeek =
                     stats.newUsersThisMonth + CreatedIn(WeekCountStart, MonthStartOf(now, 0))
            ELSE stats.newUsersThisWeek <= stats.newUsersThisMonth

\* C22 witness: the most recent Sunday lies in the previous month and the week
\* count is strictly greater than the month count
C22_Witness ==
    /\ StatsComputed
    /\ SundayInPreviousMonth
    /\ stats.newUsersThisWeek > stats.newUsersThisMonth

(***************************************************************************)
(* Properties of overlapping operations of ContentManagement               *)
(***************************************************************************)
\* the mount fetch is over and no write and no fetch is in flight
ContentQuiescent ==
    comp = "ContentManagement" /\ ~effectDue /\ fetches = <<>> /\ writes = <<>>

\* C23: once every operation in flight has completed (none of them having
\* failed), content is the sorted merge of the store's final contents, also
\* after two mutations whose re-fetches overlap: no row deleted from the store
\* is displayed.
C23_QuiescentContentIsStoreMerge ==
    (ContentQuiescent /\ faults = 0) =>
        /\ Len(content) = RowTotal(tables)
        /\ TaggedUnionOf(content, tables, Tables)
        /\ SortedNewestFirst(content)

(***************************************************************************)
(* Properties of the loading flag                                          *)
(***************************************************************************)
\* a fetch of the component is in flight
FetchInFlight == inflight # <<>> \/ fetches # <<>>

\* C24: loading is true in every state in which a fetch of the component is
\* still in flight, also when two fetches overlap (and every fetch that ends
\* sets loading to false, whatever its outcome).
C24_LoadingWhileFetchInFlight ==
    FetchInFlight => loading

(***************************************************************************)
(* Properties of the loading state of QuizHistory                          *)
(***************************************************************************)
\* C25: QuizHistory issues a query only when its effect runs with a user
\* present, one per run; every query issued leads to loading false; and when
\* no user is present from the mount on, no query is in flight and loading
\* stays true for as long as no user is present.
C25_HistoryLoadsOnlyForAUser ==
    /\ [][inflight' # inflight /\ Len(inflight') >= Len(inflight) =>
              /\ effectDue /\ ~effectDue'
              /\ authUser # NoUser
              /\ inflight' = Append(inflight, authUser)]_vars
    /\ [][authUser # NoUser /\ effectDue /\ ~effectDue' =>
              inflight' = Append(inflight, authUser) /\ loading']_vars
    /\ (inflight # <<>>) ~> ~loading
    /\ (authUser = NoUser => inflight = <<>> /\ loading)
    /\ [][authUser = NoUser /\ authUser' = NoUser /\ inflight = <<>> /\ loading =>
              inflight' = <<>> /\ loading']_vars

\* C25 witness: the effect has run without a user: nothing is in flight and the
\* component stays in its loading view
C25_Witness ==
    /\ comp = "QuizHistory"
    /\ mounted /\ ~effectDue
    /\ authUser = NoUser
    /\ inflight = <<>>
    /\ loading

(***************************************************************************)
(* Properties of an edit that changes nothing                              *)
(***************************************************************************)
\* the form still holds what handleEdit put into it for the item being edited
FormUntouched ==
    /\ editingItem # <<>>
    /\ editForm = [title       |-> editingItem[1].title,
                   description |-> OrEmpty(editingItem[1].description),
                   subject     |-> OrEmpty(editingItem[1].subject)]

\* C26: saving an edit dialog whose form was not changed writes back title,
\* description and subject equal to those of the item, also for an item whose
\* description or subject is absent.
C26_UntouchedEditWritesStoredValues ==
    [][(handleSaveEdit /\ FormUntouched) =>
          LET req == writes'[Len(writes')]
          IN  /\ req.op = "update"
              /\ req.id = editingItem[1].id
              /\ req.data.title = editingItem[1].title
              /\ req.data.description = editingItem[1].description
              /\ req.data.subject = editingItem[1].subject]_vars

(***************************************************************************)
(* Properties of the state QuizHistory holds                               *)
(***************************************************************************)
\* C27: in every reachable state of QuizHistory the rollup agrees with the
\* history held: totalQuizzes is its length, passedQuizzes the number of its
\* rows with isPassed, totalScore the sum of its percentages.
C27_StatsAgreeWithHistory ==
    comp = "QuizHistory" =>
        /\ historyStats.totalQuizzes = Len(history)
        /\ historyStats.passedQuizzes =
               Cardinality({k \in DOMAIN history : history[k].isPassed})
        /\ historyStats.totalScore = Sum([k \in DOMAIN history |-> history[k].percentage])

\* C27 witness: one of two overlapping fetches has settled and left a history
\* with a passed row, the other is still in flight
C27_Witness ==
    /\ comp = "QuizHistory"
    /\ inflight # <<>>
    /\ ~loading
    /\ history # <<>>
    /\ historyStats.passedQuizzes >= 1
    /\ historyStats.totalScore > 0

====
